---- MODULE Spec2Model ----
(***************************************************************************)
(* Model of pdf_to_anki.py: one run of main(), from the parsed command     *)
(* line to the interpreter's exit.  Strings are sequences of one-character *)
(* strings; the completion reply is a sequence of JSON tokens.             *)
(***************************************************************************)
EXTENDS Integers, Sequences, FiniteSets, TLC

(***************************************************************************)
(* Bounds of the model.                                                    *)
(***************************************************************************)
MaxPages == 2
MaxPageLen == 2
MaxTemplateLen == 4
MaxCards == 2

(***************************************************************************)
(* Program constants.                                                      *)
(***************************************************************************)
DEFAULT_MAX_NUM_WORDS == 1000

Range(s) == {s[i] : i \in 1..Len(s)}

SeqsUpTo(S, n) == UNION {[1..k -> S] : k \in 0..n}

Repeat(s, n) == [i \in 1..(n * Len(s)) |-> s[((i - 1) % Len(s)) + 1]]

(***************************************************************************)
(* Command-line arguments (parse_command_line_arguments).  A value of      *)
(* --max-num-words is the int default when the option is absent and the    *)
(* str the user typed when it is present: the option has no type=.         *)
(***************************************************************************)
IntVal(n) == [type |-> "int", val |-> n]
StrVal(n) == [type |-> "str", val |-> n]

DefaultMaxNumWords == IntVal(DEFAULT_MAX_NUM_WORDS)

DefaultPrompt == <<"t", "{", "}">>

(***************************************************************************)
(* Text extraction, lines 66-71: the pages' texts concatenated, a page     *)
(* whose extract_text() is None or "" adding nothing.                      *)
(***************************************************************************)
NonePage == [none |-> TRUE, s |-> <<>>]
Page(s) == [none |-> FALSE, s |-> s]

PageTruthy(p) == ~p.none /\ p.s # <<>>

RECURSIVE ConcatPages(_, _)
ConcatPages(pages, acc) ==
    IF pages = <<>> THEN acc
    ELSE ConcatPages(Tail(pages),
                     IF PageTruthy(Head(pages)) THEN acc \o Head(pages).s ELSE acc)

ExtractedText(pages) == ConcatPages(pages, <<>>)

(***************************************************************************)
(* len(text.split()), line 73: the number of maximal runs of               *)
(* non-whitespace characters.                                              *)
(***************************************************************************)
IsSpace(c) == c = " "

NumWords(text) ==
    Cardinality({i \in 1..Len(text) :
                    /\ ~IsSpace(text[i])
                    /\ (i = 1 \/ IsSpace(text[i - 1]))})

(***************************************************************************)
(* num_words > args.max_num_words, line 74: int > int compares, int > str  *)
(* raises TypeError.                                                       *)
(***************************************************************************)
BudgetOutcome(num_words, max_num_words) ==
    IF max_num_words.type # "int" THEN "TypeError"
    ELSE IF num_words > max_num_words.val THEN "exceeds"
    ELSE "ok"

(***************************************************************************)
(* args.chatgpt_prompt.format(text), line 80: str.format with one          *)
(* positional argument and no keyword arguments.                           *)
(***************************************************************************)
IsDigit(c) == c \in {"0", "1"}

DigitVal(c) == IF c = "1" THEN 1 ELSE 0

RECURSIVE IntOf(_, _)
IntOf(name, acc) ==
    IF name = <<>> THEN acc ELSE IntOf(Tail(name), 10 * acc + DigitVal(Head(name)))

FmtOk(out) == [ok |-> TRUE, err |-> "None", out |-> out]
FmtErr(kind) == [ok |-> FALSE, err |-> kind, out |-> <<>>]

\* the end of the replacement field opened just before position i:
\* 0 when the string ends first, -1 when a "{" comes first
RECURSIVE FieldEnd(_, _)
FieldEnd(tpl, i) ==
    IF i > Len(tpl) THEN 0
    ELSE IF tpl[i] = "{" THEN -1
    ELSE IF tpl[i] = "}" THEN i
    ELSE FieldEnd(tpl, i + 1)

RECURSIVE Fmt(_, _, _, _, _)
Fmt(tpl, i, mode, out, text) ==
    IF i > Len(tpl) THEN FmtOk(out)
    ELSE IF tpl[i] = "}" THEN
        IF i < Len(tpl) /\ tpl[i + 1] = "}"
        THEN Fmt(tpl, i + 2, mode, Append(out, "}"), text)
        ELSE FmtErr("ValueError")
    ELSE IF tpl[i] = "{" THEN
        IF i = Len(tpl) THEN FmtErr("ValueError")
        ELSE IF tpl[i + 1] = "{" THEN Fmt(tpl, i + 2, mode, Append(out, "{"), text)
        ELSE LET e == FieldEnd(tpl, i + 1)
                 name == SubSeq(tpl, i + 1, e - 1)
             IN IF e <= 0 THEN FmtErr("ValueError")
                ELSE IF name = <<>> THEN
                    IF mode.kind = "manual" THEN FmtErr("ValueError")
                    ELSE IF mode.next >= 1 THEN FmtErr("IndexError")
                    ELSE Fmt(tpl, e + 1, [kind |-> "auto", next |-> mode.next + 1],
                             out \o text, text)
                ELSE IF \A k \in 1..Len(name) : IsDigit(name[k]) THEN
                    IF mode.kind = "auto" THEN FmtErr("ValueError")
                    ELSE IF IntOf(name, 0) >= 1 THEN FmtErr("IndexError")
                    ELSE Fmt(tpl, e + 1, [kind |-> "manual", next |-> 0],
                             out \o text, text)
                ELSE FmtErr("KeyError")
    ELSE Fmt(tpl, i + 1, mode, Append(out, tpl[i]), text)

Format(tpl, text) == Fmt(tpl, 1, [kind |-> "none", next |-> 0], <<>>, text)

(***************************************************************************)
(* json.loads(generated_text), line 88.  The reply is a sequence of JSON   *)
(* tokens: punctuation, string literals, numbers, the literals null, true, *)
(* false and NaN (which Python's decoder accepts), and bare words.         *)
(***************************************************************************)
P(c) == [t |-> "punct", v |-> c]
S(s) == [t |-> "str", v |-> s]
N(n) == [t |-> "num", v |-> n]
L(w) == [t |-> "lit", v |-> w]
W(w) == [t |-> "word", v |-> w]

JStr(s) == [k |-> "str", s |-> s, items |-> <<>>]
JNum(n) == [k |-> "num", s |-> n, items |-> <<>>]
JLit(w) == [k |-> "lit", s |-> w, items |-> <<>>]
JList(items) == [k |-> "list", s |-> "", items |-> items]
JDict(items) == [k |-> "dict", s |-> "", items |-> items]
None == JLit("null")

ParseOk(val, next) == [ok |-> TRUE, val |-> val, next |-> next]
ParseFail == [ok |-> FALSE, val |-> None, next |-> 0]

\* d[key] = val on the pairs of a dict: a repeated key keeps its place and
\* takes the later value
DictSet(items, key, val) ==
    IF \E i \in 1..Len(items) : items[i].key = key
    THEN [i \in 1..Len(items) |->
             IF items[i].key = key THEN [key |-> key, val |-> val] ELSE items[i]]
    ELSE Append(items, [key |-> key, val |-> val])

RECURSIVE ParseValue(_, _), ParseArray(_, _, _), ParseObject(_, _, _)
ParseValue(toks, i) ==
    IF i > Len(toks) THEN ParseFail
    ELSE IF toks[i].t = "str" THEN ParseOk(JStr(toks[i].v), i + 1)
    ELSE IF toks[i].t = "num" THEN ParseOk(JNum(toks[i].v), i + 1)
    ELSE IF toks[i].t = "lit" THEN ParseOk(JLit(toks[i].v), i + 1)
    ELSE IF toks[i] = P("[") THEN
        IF i + 1 <= Len(toks) /\ toks[i + 1] = P("]")
        THEN ParseOk(JList(<<>>), i + 2)
        ELSE ParseArray(toks, i + 1, <<>>)
    ELSE IF toks[i] = P("{") THEN
        IF i + 1 <= Len(toks) /\ toks[i + 1] = P("}")
        THEN ParseOk(JDict(<<>>), i + 2)
        ELSE ParseObject(toks, i + 1, <<>>)
    ELSE ParseFail

ParseArray(toks, i, acc) ==
    LET r == ParseValue(toks, i)
    IN IF ~r.ok \/ r.next > Len(toks) THEN ParseFail
       ELSE IF toks[r.next] = P(",") THEN ParseArray(toks, r.next + 1, Append(acc, r.val))
       ELSE IF toks[r.next] = P("]") THEN ParseOk(JList(Append(acc, r.val)), r.next + 1)
       ELSE ParseFail

ParseObject(toks, i, acc) ==
    IF i + 1 > Len(toks) \/ toks[i].t # "str" \/ toks[i + 1] # P(":") THEN ParseFail
    ELSE LET r == ParseValue(toks, i + 2)
         IN IF ~r.ok \/ r.next > Len(toks) THEN ParseFail
            ELSE IF toks[r.next] = P(",")
                 THEN ParseObject(toks, r.next + 1, DictSet(acc, toks[i].v, r.val))
            ELSE IF toks[r.next] = P("}")
                 THEN ParseOk(JDict(DictSet(acc, toks[i].v, r.val)), r.next + 1)
            ELSE ParseFail

\* a variant that decodes the first value and ignores what follows it
JsonLoadsPrefix(toks) == ParseValue(toks, 1)

\* ok = FALSE is json.JSONDecodeError, which also covers data after the value
JsonLoads(toks) ==
    LET r == ParseValue(toks, 1)
    IN IF r.ok /\ r.next = Len(toks) + 1 THEN r ELSE ParseFail

(***************************************************************************)
(* Deck assembly, lines 92-99.                                             *)
(***************************************************************************)
\* a variant testing "is not None" in place of truthiness
TruthyNotNone(v) == v # None

\* bool(v), as "not front" uses it
Truthy(v) ==
    IF v.k = "str" THEN v.s # ""
    ELSE IF v.k = "num" THEN v.s # "0"
    ELSE IF v.k = "lit" THEN v.s \in {"true", "NaN"}
    ELSE v.items # <<>>

\* card_data.get(key) on a dict
Get(d, key) ==
    IF \E i \in 1..Len(d.items) : d.items[i].key = key
    THEN d.items[CHOOSE i \in 1..Len(d.items) : d.items[i].key = key].val
    ELSE None

\* what "for card_data in anki_cards_data" iterates over: the elements of a
\* list, the keys of a dict, the characters of a str; anything else is not
\* iterable (TypeError)
Iterable(v) == v.k \in {"list", "dict", "str"}

Elements(v) ==
    IF v.k = "list" THEN v.items
    ELSE IF v.k = "dict" THEN [i \in 1..Len(v.items) |-> JStr(v.items[i].key)]
    ELSE IF v.s = "" THEN <<>>
    ELSE <<JStr(v.s)>>   \* a non-empty str yields str elements; the first one stops the loop

Note(front, back) == [fields |-> <<front, back>>]

\* the loop of lines 93-99: the notes added so far, until an element
\* without a .get method raises AttributeError
RECURSIVE AddNotes(_, _)
AddNotes(elems, notes) ==
    IF elems = <<>> THEN [ok |-> TRUE, notes |-> notes]
    ELSE LET card_data == Head(elems)
         IN IF card_data.k # "dict" THEN [ok |-> FALSE, notes |-> notes]
            ELSE LET front == Get(card_data, "front")
                     back == Get(card_data, "back")
                 IN IF ~Truthy(front) \/ ~Truthy(back)
                    THEN AddNotes(Tail(elems), notes)
                    ELSE AddNotes(Tail(elems), Append(notes, Note(front, back)))

(***************************************************************************)
(* Exceptions and messages.                                                *)
(***************************************************************************)
NoError == [kind |-> "None", msg |-> "", params |-> <<>>]
Error(kind, msg, params) == [kind |-> kind, msg |-> msg, params |-> params]

\* line 59
InputMissingError == Error("FileNotFoundError", "The PDF file does not exist.", <<>>)

\* a variant reporting the count in place of the limit
BudgetErrorWithCount(num_words, max_num_words) ==
    [kind |-> "ValueError", msg |-> "PDF exceeds words.", params |-> <<[type |-> "int", val |-> num_words]>>]

\* line 75: f"PDF exceeds {args.max_num_words} words."
BudgetError(num_words, max_num_words) ==
    Error("ValueError", "PDF exceeds words.", <<max_num_words>>)

\* line 74, int > str
CompareError == Error("TypeError", "'>' not supported between instances of 'int' and 'str'", <<>>)

\* line 90
JsonError == Error("ValueError", "Failed to parse JSON from generated text", <<>>)

\* does main run under the handle_errors wrapper?  "def main()" at line 55
\* carries no decorator and line 108 calls main() itself
MAIN_IS_WRAPPED == FALSE

(***************************************************************************)
(* The inputs of a run: the command line, the document, the completion     *)
(* service's answer and the filesystem.                                    *)
(***************************************************************************)
TextChars == {"a", " "}
TemplateChars == {"t", "{", "}", "0"}

LongPage == Page(Repeat(<<"a", " ">>, DEFAULT_MAX_NUM_WORDS))

PageValues == {NonePage} \cup {Page(s) : s \in SeqsUpTo(TextChars, MaxPageLen)}
LongPageLists ==
    {<<LongPage>>} \cup {<<LongPage, p>> : p \in PageValues} \cup {<<p, LongPage>> : p \in PageValues}
PageLists == SeqsUpTo(PageValues, MaxPages) \cup LongPageLists
FewPageLists == {<<>>, <<Page(<<"a", " ">>), Page(<<"{", "a">>)>>}

MaxNumWordsChoices == {DefaultMaxNumWords, StrVal(1), StrVal(DEFAULT_MAX_NUM_WORDS)}

\* a template showing the wanted JSON before the marker, and one with a
\* named placeholder before it
ExampleTemplates ==
    { <<"{", "{", "t", "}", "}", "t", "{", "}">>,
      <<"{", "t", "}", "t", "{", "}">> }
Templates == SeqsUpTo(TemplateChars, MaxTemplateLen) \cup ExampleTemplates

\* candidate objects of a reply, by shape; the i-th candidate of a list
\* carries its own texts
Q == <<"q1", "q2", "q3", "q4">>
A == <<"a1", "a2", "a3", "a4">>
CardShapes == {"valid", "empty_front", "empty_back", "null_front", "no_back", "empty_obj"}

CardToks(shape, i) ==
    IF shape = "valid" THEN
        <<P("{"), S("front"), P(":"), S(Q[i]), P(","), S("back"), P(":"), S(A[i]), P("}")>>
    ELSE IF shape = "empty_front" THEN
        <<P("{"), S("front"), P(":"), S(""), P(","), S("back"), P(":"), S(A[i]), P("}")>>
    ELSE IF shape = "empty_back" THEN
        <<P("{"), S("back"), P(":"), S(""), P(","), S("front"), P(":"), S(Q[i]), P("}")>>
    ELSE IF shape = "null_front" THEN
        <<P("{"), S("front"), P(":"), L("null"), P(","), S("back"), P(":"), S(A[i]), P("}")>>
    ELSE IF shape = "no_back" THEN
        <<P("{"), S("front"), P(":"), S(Q[i]), P(","), S("note"), P(":"), S(A[i]), P("}")>>
    ELSE <<P("{"), P("}")>>

RECURSIVE JoinCards(_, _)
JoinCards(shapes, i) ==
    IF i > Len(shapes) THEN <<>>
    ELSE (IF i = 1 THEN <<>> ELSE <<P(",")>>) \o CardToks(shapes[i], i) \o JoinCards(shapes, i + 1)

ListToks(shapes) == <<P("[")>> \o JoinCards(shapes, 1) \o <<P("]")>>

CardListReplies == {ListToks(shapes) : shapes \in SeqsUpTo(CardShapes, MaxCards)}

ScenarioReply == ListToks(<<"valid", "empty_front", "valid">>)

\* replies the decoder rejects
InvalidReplies ==
    { <<>>,
      <<W("Sure"), W("here")>> \o ScenarioReply,
      ScenarioReply \o <<W("Done")>>,
      SubSeq(ScenarioReply, 1, Len(ScenarioReply) - 1),
      <<P("[")>> \o CardToks("valid", 1) \o <<P(","), P("]")>>,
      <<P("[")>> \o CardToks("valid", 1) \o CardToks("valid", 2) \o <<P("]")>>,
      <<P("["), P("{"), W("front"), P(":"), S("q1"), P("}"), P("]")>>,
      <<P("["), P("{"), S("front"), P(":"), P("}"), P("]")>> }

\* replies the decoder accepts that are not an array of objects
WrongShapeReplies ==
    { CardToks("valid", 1),
      <<P("{"), P("}")>>,
      <<P("{"), S("cards"), P(":")>> \o ScenarioReply \o <<P("}")>>,
      <<S("q1")>>,
      <<S("")>>,
      <<N("5")>>,
      <<L("null")>>,
      <<L("true")>>,
      <<L("NaN")>>,
      <<P("["), N("5"), P("]")>>,
      <<P("["), S("q1"), P(","), S("a1"), P("]")>>,
      <<P("["), L("null"), P("]")>>,
      <<P("[")>> \o ScenarioReply \o <<P("]")>>,
      <<P("[")>> \o CardToks("valid", 1) \o <<P(","), N("5"), P("]")>>,
      <<P("["), N("5"), P(",")>> \o CardToks("valid", 2) \o <<P("]")>> }

Reply(content) == [kind |-> "reply", content |-> content]
ServiceFailure == [kind |-> "APIError", content |-> <<>>]
NoChoices == [kind |-> "no_choices", content |-> <<>>]

Services ==
    {ServiceFailure, NoChoices}
        \cup {Reply(c) : c \in CardListReplies \cup InvalidReplies \cup WrongShapeReplies}

FewServices == {ServiceFailure, Reply(ScenarioReply), Reply(<<W("Sure")>>)}

Args(max_num_words, chatgpt_prompt) ==
    [max_num_words |-> max_num_words, chatgpt_prompt |-> chatgpt_prompt]

Input(a, pages, svc) == [args |-> a, pages |-> pages, service |-> svc]

Inputs ==
    {Input(Args(m, DefaultPrompt), pl, Reply(ScenarioReply)) :
        m \in MaxNumWordsChoices, pl \in PageLists}
    \cup {Input(Args(DefaultMaxNumWords, tpl), pl, svc) :
        tpl \in Templates, pl \in FewPageLists, svc \in FewServices}
    \cup {Input(Args(DefaultMaxNumWords, DefaultPrompt), pl, svc) :
        pl \in FewPageLists, svc \in Services}

(***************************************************************************)
(* State of a run.                                                         *)
(***************************************************************************)
VARIABLES
    args,             \* the parsed command line
    pdf,              \* the input document: is it a file, and its pages' texts
    service,          \* what the completion service answers when called
    fs,               \* the output directory and the package file in it
    fs0,              \* the filesystem when the run started
    pc,               \* position in main()
    text,             \* the extracted text
    num_words,
    prompt,           \* args.chatgpt_prompt.format(text)
    request,          \* the content of the message the service received
    generated_text,
    anki_cards_data,
    deck,
    exc,              \* the exception raised, if any
    stdout,
    stderr,
    exit_code,        \* -1 while the process runs
    stages            \* the stages executed so far, in order

vars == <<args, pdf, service, fs, fs0, pc, text, num_words, prompt, request,
          generated_text, anki_cards_data, deck, exc, stdout, stderr, exit_code, stages>>

inputs == <<args, pdf, service, fs0>>
locals == <<text, num_words, prompt, request, generated_text, anki_cards_data, deck>>
outputs == <<stdout, stderr, exit_code>>

NoPackage == [state |-> "absent", notes |-> <<>>]
NoDeck == [created |-> FALSE, name |-> "", notes |-> <<>>]

Init ==
    /\ \E in \in Inputs, is_file \in BOOLEAN, out_dir \in BOOLEAN :
          /\ args = in.args
          /\ pdf = [is_file |-> is_file, pages |-> in.pages]
          /\ service = in.service
          /\ fs = [out_dir |-> out_dir, package |-> NoPackage]
          /\ fs0 = [out_dir |-> out_dir, package |-> NoPackage]
    /\ pc = "check_input"
    /\ text = <<>>
    /\ num_words = 0
    /\ prompt = <<>>
    /\ request = <<>>
    /\ generated_text = <<>>
    /\ anki_cards_data = None
    /\ deck = NoDeck
    /\ exc = NoError
    /\ stdout = <<>>
    /\ stderr = <<>>
    /\ exit_code = -1
    /\ stages = <<>>

\* lines 58-59
CheckInputFile ==
    /\ pc = "check_input"
    /\ stages' = Append(stages, "check_input")
    /\ IF ~pdf.is_file
       THEN pc' = "raised" /\ exc' = InputMissingError
       ELSE pc' = "make_out_dir" /\ exc' = exc
    /\ UNCHANGED <<inputs, fs, locals, outputs>>

\* a variant that never creates the directory
MakeOutDirSkipped ==
    /\ pc = "make_out_dir"
    /\ stages' = Append(stages, "make_out_dir")
    /\ pc' = "extract"
    /\ UNCHANGED <<inputs, fs, locals, exc, outputs>>

\* lines 61-62; os.makedirs may fail
MakeOutDir ==
    /\ pc = "make_out_dir"
    /\ stages' = Append(stages, "make_out_dir")
    /\ IF fs.out_dir
       THEN pc' = "extract" /\ exc' = exc /\ fs' = fs
       ELSE \E created \in BOOLEAN :
               IF created
               THEN pc' = "extract" /\ exc' = exc /\ fs' = [fs EXCEPT !.out_dir = TRUE]
               ELSE pc' = "raised" /\ exc' = Error("OSError", "makedirs", <<>>) /\ fs' = fs
    /\ UNCHANGED <<inputs, locals, outputs>>

\* lines 64-71; pdfplumber.open may fail on a file that is not a PDF
ExtractText ==
    /\ pc = "extract"
    /\ stages' = Append(stages, "extract")
    /\ \E opened \in BOOLEAN :
          IF opened
          THEN pc' = "budget" /\ exc' = exc /\ text' = ExtractedText(pdf.pages)
          ELSE pc' = "raised" /\ exc' = Error("PDFSyntaxError", "open", <<>>) /\ text' = text
    /\ UNCHANGED <<inputs, fs, num_words, prompt, request, generated_text,
                   anki_cards_data, deck, outputs>>

\* lines 73-75
BudgetGuard ==
    /\ pc = "budget"
    /\ stages' = Append(stages, "budget")
    /\ num_words' = NumWords(text)
    /\ LET outcome == BudgetOutcome(NumWords(text), args.max_num_words)
       IN IF outcome = "ok" THEN pc' = "build_prompt" /\ exc' = exc
          ELSE IF outcome = "exceeds"
          THEN pc' = "raised" /\ exc' = BudgetError(NumWords(text), args.max_num_words)
          ELSE pc' = "raised" /\ exc' = CompareError
    /\ UNCHANGED <<inputs, fs, text, prompt, request, generated_text,
                   anki_cards_data, deck, outputs>>

\* lines 77 and 80: the print, then the argument of the call
BuildPrompt ==
    /\ pc = "build_prompt"
    /\ stages' = Append(stages, "build_prompt")
    /\ stdout' = Append(stdout, "initiating openai request ...")
    /\ LET r == Format(args.chatgpt_prompt, text)
       IN IF r.ok
          THEN pc' = "gateway" /\ exc' = exc /\ prompt' = r.out
          ELSE pc' = "raised" /\ exc' = Error(r.err, "format", <<>>) /\ prompt' = prompt
    /\ UNCHANGED <<inputs, fs, text, num_words, request, generated_text,
                   anki_cards_data, deck, stderr, exit_code>>

\* lines 78-85
CallGateway ==
    /\ pc = "gateway"
    /\ stages' = Append(stages, "gateway")
    /\ request' = prompt
    /\ IF service.kind = "reply"
       THEN /\ pc' = "parse" /\ exc' = exc
            /\ generated_text' = service.content
            /\ stdout' = Append(stdout, "received openai response")
       ELSE /\ pc' = "raised"
            /\ exc' = IF service.kind = "no_choices"
                      THEN Error("IndexError", "choices[0]", <<>>)
                      ELSE Error("APIError", "create", <<>>)
            /\ UNCHANGED <<generated_text, stdout>>
    /\ UNCHANGED <<inputs, fs, text, num_words, prompt, anki_cards_data, deck,
                   stderr, exit_code>>

\* a variant that records the decode failure and carries on
ParseReplySwallow ==
    /\ pc = "parse"
    /\ stages' = Append(stages, "parse")
    /\ LET r == JsonLoads(generated_text)
       IN IF r.ok
          THEN pc' = "assemble" /\ exc' = exc /\ anki_cards_data' = r.val
          ELSE pc' = "assemble" /\ exc' = JsonError /\ anki_cards_data' = JList(<<>>)
    /\ UNCHANGED <<inputs, fs, text, num_words, prompt, request, generated_text,
                   deck, outputs>>

\* lines 87-90
ParseReply ==
    /\ pc = "parse"
    /\ stages' = Append(stages, "parse")
    /\ LET r == JsonLoads(generated_text)
       IN IF r.ok
          THEN pc' = "assemble" /\ exc' = exc /\ anki_cards_data' = r.val
          ELSE pc' = "raised" /\ exc' = JsonError /\ anki_cards_data' = anki_cards_data
    /\ UNCHANGED <<inputs, fs, text, num_words, prompt, request, generated_text,
                   deck, outputs>>

\* lines 92-99
AssembleDeck ==
    /\ pc = "assemble"
    /\ stages' = Append(stages, "assemble")
    /\ IF ~Iterable(anki_cards_data)
       THEN /\ pc' = "raised" /\ exc' = Error("TypeError", "not iterable", <<>>)
            /\ deck' = [created |-> TRUE, name |-> "Deck", notes |-> <<>>]
       ELSE LET r == AddNotes(Elements(anki_cards_data), <<>>)
            IN /\ deck' = [created |-> TRUE, name |-> "Deck", notes |-> r.notes]
               /\ IF r.ok THEN pc' = "write" /\ exc' = exc
                  ELSE pc' = "raised" /\ exc' = Error("AttributeError", "get", <<>>)
    /\ UNCHANGED <<inputs, fs, text, num_words, prompt, request, generated_text,
                   anki_cards_data, outputs>>

\* lines 101-104; write_to_file may fail, leaving no file or a partial one
WritePackage ==
    /\ pc = "write"
    /\ stages' = Append(stages, "write")
    /\ \E outcome \in {"written", "absent", "partial"} :
          IF outcome = "written"
          THEN /\ pc' = "returned" /\ exc' = exc
               /\ fs' = [fs EXCEPT !.package = [state |-> "written", notes |-> deck.notes]]
               /\ stdout' = Append(stdout, "saved deck at dest")
          ELSE /\ pc' = "raised" /\ exc' = Error("OSError", "write_to_file", <<>>)
               /\ fs' = [fs EXCEPT !.package = [state |-> outcome, notes |-> <<>>]]
               /\ stdout' = stdout
    /\ UNCHANGED <<inputs, locals, stderr, exit_code>>

\* handle_errors' wrapper, lines 45-50: what it prints for an exception
HandleErrors(e, out) == Append(out, "An error occurred")

\* line 108: main() returned
ExitNormally ==
    /\ pc = "returned"
    /\ pc' = "exited"
    /\ exit_code' = 0
    /\ UNCHANGED <<inputs, fs, locals, exc, stdout, stderr, stages>>

\* line 108: main() raised.  Under the wrapper the exception is printed and
\* exit(1) is called; without it the interpreter prints the traceback on
\* stderr and exits with status 1
PropagateException ==
    /\ pc = "raised"
    /\ pc' = "exited"
    /\ exit_code' = 1
    /\ IF MAIN_IS_WRAPPED
       THEN stdout' = HandleErrors(exc, stdout) /\ stderr' = stderr
       ELSE stdout' = stdout /\ stderr' = <<"Traceback (most recent call last):", exc.kind>>
    /\ UNCHANGED <<inputs, fs, locals, exc, stages>>

Next ==
    \/ CheckInputFile
    \/ MakeOutDir
    \/ ExtractText
    \/ BudgetGuard
    \/ BuildPrompt
    \/ CallGateway
    \/ ParseReply
    \/ AssembleDeck
    \/ WritePackage
    \/ ExitNormally
    \/ PropagateException

Spec == Init /\ [][Next]_vars

(***************************************************************************)
(* Vocabulary of the properties.                                           *)
(***************************************************************************)
StageOrder == <<"check_input", "make_out_dir", "extract", "budget", "build_prompt",
                "gateway", "parse", "assemble", "write">>

Ran(stage) == \E i \in 1..Len(stages) : stages[i] = stage

LastStage == IF stages = <<>> THEN "" ELSE stages[Len(stages)]

Failed == exc.kind # "None"

FailedAt(stage) == Failed /\ LastStage = stage

IsBudgetError(e) == e.kind = "ValueError" /\ e.msg = "PDF exceeds words."

\* the number the user configured as the maximum, typed or defaulted
Limit == args.max_num_words.val

\* the template is plain text around one "{}" marker
MarkerAt(tpl, i) == i < Len(tpl) /\ tpl[i] = "{" /\ tpl[i + 1] = "}"
Markers(tpl) == {i \in 1..Len(tpl) : MarkerAt(tpl, i)}
Braces(tpl) == {i \in 1..Len(tpl) : tpl[i] \in {"{", "}"}}
PlainAroundOneMarker(tpl) == Cardinality(Markers(tpl)) = 1 /\ Cardinality(Braces(tpl)) = 2

\* the template with the marker at i replaced by the text
Substituted(tpl, i, txt) == SubSeq(tpl, 1, i - 1) \o txt \o SubSeq(tpl, i + 2, Len(tpl))

(***************************************************************************)
(* C1: whenever the extracted text has more words than the configured      *)
(* maximum, the run fails with the budget-exceeded error, the completion    *)
(* gateway is never called, no deck is assembled and no package is written. *)
(***************************************************************************)
C1_OverBudgetFailsBeforeGateway ==
    (Ran("budget") /\ NumWords(text) > Limit) =>
        /\ IsBudgetError(exc)
        /\ ~Ran("gateway")
        /\ ~deck.created
        /\ fs.package.state = "absent"

(***************************************************************************)
(* C2: whenever the extracted text has at most the configured maximum of    *)
(* words (the maximum itself included), the budget check passes, and the    *)
(* prompt the gateway receives is the template with its one marker replaced *)
(* by the text, unchanged.                                                  *)
(***************************************************************************)
C2_WithinBudgetPromptVerbatim ==
    (Ran("budget") /\ NumWords(text) <= Limit /\ PlainAroundOneMarker(args.chatgpt_prompt)) =>
        /\ ~FailedAt("budget")
        /\ Ran("gateway") =>
              \E i \in Markers(args.chatgpt_prompt) :
                  request = Substituted(args.chatgpt_prompt, i, text)

(***************************************************************************)
(* C3: when the reply decodes to a list of N objects of which M have a      *)
(* non-empty front and a non-empty back, assembly does not fail and the     *)
(* deck holds exactly M notes, each [front, back] of its candidate, in the  *)
(* candidates' order; the package written holds the same notes, none when   *)
(* M = 0.                                                                   *)
(***************************************************************************)
NonEmptyField(c, key) ==
    \E i \in 1..Len(c.items) :
        c.items[i].key = key /\ c.items[i].val.k = "str" /\ c.items[i].val.s # ""

FieldOf(c, key) == (CHOOSE p \in Range(c.items) : p.key = key).val

IsValidCard(c) == NonEmptyField(c, "front") /\ NonEmptyField(c, "back")

ValidCards(cands) == SelectSeq(cands, IsValidCard)

ExpectedNotes(cands) ==
    [i \in 1..Len(ValidCards(cands)) |->
        [fields |-> <<FieldOf(ValidCards(cands)[i], "front"),
                      FieldOf(ValidCards(cands)[i], "back")>>]]

IsListOfObjects(v) == v.k = "list" /\ \A i \in 1..Len(v.items) : v.items[i].k = "dict"

C3_DeckHoldsValidCardsInOrder ==
    (Ran("assemble") /\ IsListOfObjects(anki_cards_data)) =>
        /\ ~FailedAt("assemble")
        /\ deck.notes = ExpectedNotes(anki_cards_data.items)
        /\ Len(deck.notes) = Cardinality({i \in 1..Len(anki_cards_data.items) :
                                             IsValidCard(anki_cards_data.items[i])})
        /\ fs.package.state = "written" => fs.package.notes = deck.notes
        /\ pc = "exited" /\ ~Failed => fs.package.state = "written"

\* three candidates, the middle one with an empty front: two notes written
C3_Witness ==
    /\ pc = "exited" /\ exit_code = 0
    /\ IsListOfObjects(anki_cards_data) /\ Len(anki_cards_data.items) = 3
    /\ fs.package.state = "written"
    /\ fs.package.notes = <<[fields |-> <<JStr("q1"), JStr("a1")>>],
                            [fields |-> <<JStr("q3"), JStr("a3")>>]>>

(***************************************************************************)
(* C4: when the reply is not valid JSON, the run fails with the parse       *)
(* error, no deck is assembled and no output file is written.               *)
(***************************************************************************)
C4_InvalidJsonFailsParse ==
    (Ran("parse") /\ generated_text \in InvalidReplies) =>
        /\ exc = JsonError
        /\ pc \in {"raised", "exited"}
        /\ ~Ran("assemble") /\ ~deck.created
        /\ ~Ran("write") /\ fs.package.state = "absent"
        /\ pc = "exited" => exit_code = 1

C4_Witness ==
    /\ pc = "exited"
    /\ Ran("parse") /\ generated_text \in InvalidReplies
    /\ Len(generated_text) > 2

(***************************************************************************)
(* C5: when the reply is valid JSON of the wrong shape (not an array of     *)
(* objects), the run ends with the parse error, as for text that does not   *)
(* decode, and never with another error or a written deck.                  *)
(***************************************************************************)
C5_WrongShapeIsParseError ==
    (pc = "exited" /\ Ran("parse") /\ generated_text \in WrongShapeReplies) =>
        exc = JsonError /\ fs.package.state = "absent"

(***************************************************************************)
(* C6: a failure at any stage is caught by the top-level handler, which     *)
(* prints one diagnostic message and exits with a non-zero status; a        *)
(* successful run exits 0 after printing the destination path.              *)
(***************************************************************************)
C6_FailuresReportedByHandler ==
    pc = "exited" =>
        IF Failed
        THEN /\ exit_code # 0
             /\ stdout # <<>> /\ stdout[Len(stdout)] = "An error occurred"
             /\ stderr = <<>>
        ELSE /\ exit_code = 0
             /\ stdout # <<>> /\ stdout[Len(stdout)] = "saved deck at dest"

(***************************************************************************)
(* C7, as claimed: the budget-exceeded error carries the computed word      *)
(* count and the limit.                                                     *)
(***************************************************************************)
C7_ErrorCarriesCountAndLimit ==
    IsBudgetError(exc) =>
        /\ IntVal(num_words) \in Range(exc.params)
        /\ args.max_num_words \in Range(exc.params)

(***************************************************************************)
(* C7, amended: the budget-exceeded error is raised only for a word count   *)
(* above the limit, and it carries the limit alone, not the computed count. *)
(***************************************************************************)
C7_ErrorCarriesLimitOnly ==
    IsBudgetError(exc) =>
        /\ num_words > Limit
        /\ exc.params = <<args.max_num_words>>
        /\ IntVal(num_words) \notin Range(exc.params)

\* 1001 words against the default limit of 1000
C7_Witness ==
    /\ IsBudgetError(exc)
    /\ num_words = DEFAULT_MAX_NUM_WORDS + 1
    /\ args.max_num_words = DefaultMaxNumWords

(***************************************************************************)
(* C8: the stages run in the fixed order, each at most once; after a        *)
(* failure no stage runs and the failure stays; the write happens at most   *)
(* once, after every other stage has succeeded, and nothing runs after it.  *)
(***************************************************************************)
IsPrefix(s, t) == Len(s) <= Len(t) /\ \A i \in 1..Len(s) : s[i] = t[i]

C8_StagesInOrder ==
    /\ IsPrefix(stages, StageOrder)
    /\ Ran("write") => stages = StageOrder
    /\ Failed <=> pc = "raised" \/ (pc = "exited" /\ exit_code # 0)

C8_LinearPipeline ==
    /\ []C8_StagesInOrder
    /\ [][Failed => (stages' = stages /\ exc' = exc /\ fs' = fs)]_vars
    /\ [][Ran("write") => (stages' = stages /\ fs' = fs)]_vars

\* a run that failed at the parse stage and exited
C8_Witness ==
    /\ pc = "exited"
    /\ FailedAt("parse")
    /\ stages = SubSeq(StageOrder, 1, 7)

(***************************************************************************)
(* C9: for any template, plain text with literal braces or other            *)
(* placeholders included, around one marker, prompt building succeeds and   *)
(* substitutes the text once, leaving the rest unchanged; for a template    *)
(* without a marker the prompt is the template as it is and the run goes on *)
(* to the gateway.                                                          *)
(***************************************************************************)
C9_AnyTemplateOneSubstitution ==
    Ran("build_prompt") =>
        /\ ~FailedAt("build_prompt")
        /\ Cardinality(Markers(args.chatgpt_prompt)) = 1 /\ pc # "build_prompt" =>
              \E i \in Markers(args.chatgpt_prompt) :
                  prompt = Substituted(args.chatgpt_prompt, i, text)
        /\ Markers(args.chatgpt_prompt) = {} /\ pc # "build_prompt" =>
              prompt = args.chatgpt_prompt

(***************************************************************************)
(* C10: the output directory is created after the input-file check and      *)
(* before extraction.  A run failing the input-file check leaves the        *)
(* filesystem as it was; a run failing at a later stage before the write    *)
(* leaves the directory in place (created if it was absent) with no package *)
(* file in it; only a fully successful run leaves the package file.         *)
(***************************************************************************)
StagesBeforeWrite == {"extract", "budget", "build_prompt", "gateway", "parse", "assemble"}

C10_OutputDirectoryEffects ==
    /\ ~Ran("make_out_dir") => fs = fs0
    /\ FailedAt("check_input") => fs = fs0
    /\ Ran("extract") => fs.out_dir
    /\ (\E st \in StagesBeforeWrite : FailedAt(st)) =>
          fs.out_dir /\ fs.package.state = "absent"
    /\ fs.package.state = "written" =>
          ~Failed /\ stages = StageOrder /\ fs.out_dir

\* the directory was absent, the budget check failed: directory, no package
C10_Witness ==
    /\ pc = "exited"
    /\ ~fs0.out_dir /\ fs.out_dir
    /\ FailedAt("budget")
    /\ fs.package.state = "absent"

====
